---------------------------- MODULE Spec2Model ----------------------------
(***************************************************************************)
(* A model of the promoter's consistency checks                            *)
(* (lib/dockerregistry/checks.go) and of the audit verifier exercised by   *)
(* test-e2e/cip-auditor/tests.yaml.                                        *)
(*                                                                         *)
(* The module holds five state machines over one set of variables; each    *)
(* specification drives one of them and leaves the others idle:            *)
(*   SpecShift    MBToBytes / BytesToMB                                    *)
(*   SpecCompare  ImageRemovalCheck.Compare                                *)
(*   SpecSize     ImageSizeCheck.Run and ImageSizeError.Error              *)
(*   Spec         MKRealImageRemovalCheck and ImageRemovalCheck.Run        *)
(*   SpecAudit    the audit verifier                                       *)
(***************************************************************************)
EXTENDS Integers, Sequences, FiniteSets, TLC

VARIABLES
    \* MBToBytes / BytesToMB
    shiftIn, shiftBytes, shiftOut, shiftPc,
    \* ImageRemovalCheck.Compare
    edgesMaster, edgesPullRequest, cmpRun,
    \* ImageSizeCheck
    sizeCheck, sizeRun,
    \* MKRealImageRemovalCheck and ImageRemovalCheck.Run
    env, mkPc, check, mkErr, repo, tree, runs, trace,
    \* audit verifier
    auditCase, txns

shiftVars == <<shiftIn, shiftBytes, shiftOut, shiftPc>>
cmpVars == <<edgesMaster, edgesPullRequest, cmpRun>>
sizeVars == <<sizeCheck, sizeRun>>
runVars == <<env, mkPc, check, mkErr, repo, tree, runs, trace>>
auditVars == <<auditCase, txns>>
vars == <<shiftVars, cmpVars, sizeVars, runVars, auditVars>>

\* The value of a variable of a state machine that is not running.
Nil == "nil"

ShiftIdle == shiftIn = 0 /\ shiftBytes = 0 /\ shiftOut = 0 /\ shiftPc = Nil
CmpIdle == edgesMaster = {} /\ edgesPullRequest = {} /\ cmpRun = Nil
SizeIdle == sizeCheck = Nil /\ sizeRun = Nil
RunIdle ==
    /\ env = Nil /\ mkPc = Nil /\ check = Nil /\ mkErr = Nil /\ repo = Nil
    /\ tree = Nil /\ runs = Nil /\ trace = <<>>
AuditIdle == auditCase = Nil /\ txns = <<>>

----------------------------------------------------------------------------
(***************************************************************************)
(* Machine integers.  Go's int is IntWidth bits wide; a left shift wraps   *)
(* (two's complement) and a right shift of a signed value is arithmetic.   *)
(***************************************************************************)

\* Width of Go's int on a 32-bit target (on a 64-bit target it is 64 and
\* every threshold below moves from 2^11 to 2^43).
IntWidth == 32

mbToBytesShift == 20

bytesToMBShift == 20

\* The largest int: 2^(IntWidth-1) - 1, computed without leaving the range.
MaxInt == (2 ^ (IntWidth - 2) - 1) * 2 + 1

\* value << s at IntWidth bits: the low IntWidth - s bits move up, the top
\* one of them becomes the sign.
ShiftLeft(value, s) ==
    LET m == 2 ^ (IntWidth - s)
        low == value % m
    IN IF low >= m \div 2 THEN (low - m) * (2 ^ s) ELSE low * (2 ^ s)

\* value >> s on a signed int: floor division by 2^s.
ShiftRight(value, s) == value \div (2 ^ s)

MBToBytes(value) == ShiftLeft(value, mbToBytesShift)

\* A conversion to decimal megabytes instead of a 20-bit shift.
BytesToMBDecimal(value) == value \div 1000000

BytesToMB(value) == ShiftRight(value, bytesToMBShift)

\* Largest small input of the round trip.
MaxSmallMB == 40

\* First value whose left shift by 20 no longer fits the int.
FirstOverflowMB == 2 ^ (IntWidth - 1 - mbToBytesShift)

ShiftInputs ==
    (0 .. MaxSmallMB) \cup
    { FirstOverflowMB - 1, FirstOverflowMB, FirstOverflowMB + 1,
      2 * FirstOverflowMB - 1, 2 * FirstOverflowMB, 2 * FirstOverflowMB + 1,
      MaxInt }

ShiftInit ==
    /\ shiftIn \in ShiftInputs
    /\ shiftBytes = 0 /\ shiftOut = 0 /\ shiftPc = "start"
    /\ CmpIdle /\ SizeIdle /\ RunIdle /\ AuditIdle

ShiftFrame == UNCHANGED <<cmpVars, sizeVars, runVars, auditVars>>

CallMBToBytes ==
    /\ shiftPc = "start"
    /\ shiftBytes' = MBToBytes(shiftIn)
    /\ shiftPc' = "bytes"
    /\ UNCHANGED <<shiftIn, shiftOut>>
    /\ ShiftFrame

CallBytesToMB ==
    /\ shiftPc = "bytes"
    /\ shiftOut' = BytesToMB(shiftBytes)
    /\ shiftPc' = "done"
    /\ UNCHANGED <<shiftIn, shiftBytes>>
    /\ ShiftFrame

ShiftNext == CallMBToBytes \/ CallBytesToMB

SpecShift == ShiftInit /\ [][ShiftNext]_vars

\* C7 (as stated): BytesToMB(MBToBytes(x)) = x for every non-negative int x,
\* also when x << 20 exceeds the integer width.
C7_RoundTripAll == shiftPc = "done" => shiftOut = shiftIn

\* C7 (amended): BytesToMB(MBToBytes(x)) = x for every x with
\* 0 <= x < 2^(IntWidth-21), the values whose left shift by 20 fits the int.
C7_RoundTripInRange ==
    (shiftPc = "done" /\ shiftIn < FirstOverflowMB) => shiftOut = shiftIn

\* The largest value of the range has made the round trip.
C7_Witness ==
    /\ shiftPc = "done"
    /\ shiftIn = FirstOverflowMB - 1
    /\ shiftBytes = MaxInt - (2 ^ mbToBytesShift - 1)
    /\ shiftOut = shiftIn

----------------------------------------------------------------------------
(***************************************************************************)
(* Promotion edges.  An edge names a destination image (DstImageTag: image *)
(* name and tag) and a digest; Rest stands for the edge's remaining fields *)
(* (where the image is promoted from), which a composite literal that      *)
(* names only DstImageTag and Digest leaves at their zero value.           *)
(***************************************************************************)

ImageNames == {"bar", "foo"}

Tags == {"1.0", "2.0"}

Digests == {"sha256:1f", "sha256:2e"}

Rests == {"gcr.io/staging-a", "gcr.io/staging-b"}

ZeroRest == ""

PromotionEdges ==
    [DstImageTag : [ImageName : ImageNames, Tag : Tags],
     Digest : Digests,
     Rest : Rests]

\* Largest edge set given to a check.
MaxEdges == 2

\* The sets of at most n elements of S.
RECURSIVE SetsUpTo(_, _)
SetsUpTo(S, n) ==
    IF n = 0 THEN {{}}
    ELSE LET smaller == SetsUpTo(S, n - 1)
         IN smaller \cup {T \cup {e} : T \in smaller, e \in S}

\* The candidate edge sets, and the baseline edge sets: the baseline's edges
\* all come from one source, the candidate's from either.
EdgeSets == SetsUpTo(PromotionEdges, MaxEdges)

MasterEdgeSets ==
    SetsUpTo({e \in PromotionEdges : e.Rest = "gcr.io/staging-a"}, MaxEdges)

\* The orders in which a range over a Go map can enumerate the set S.
Orderings(S) ==
    {f \in [1 .. Cardinality(S) -> S] :
        \A i, j \in 1 .. Cardinality(S) : i # j => f[i] # f[j]}

Range(f) == {f[i] : i \in DOMAIN f}

\* strings.Join
RECURSIVE Join(_, _)
Join(elems, sep) ==
    IF Len(elems) = 0 THEN ""
    ELSE IF Len(elems) = 1 THEN elems[1]
    ELSE elems[1] \o sep \o Join(Tail(elems), sep)

\* A key that keeps the image name and the digest and drops the tag.
ProjectionDropTag(edge) ==
    [DstImageTag |-> [ImageName |-> edge.DstImageTag.ImageName, Tag |-> ""],
     Digest |-> edge.Digest,
     Rest |-> ZeroRest]

\* PromotionEdge{DstImageTag: edge.DstImageTag, Digest: edge.Digest}
Projection(edge) ==
    [DstImageTag |-> edge.DstImageTag,
     Digest |-> edge.Digest,
     Rest |-> ZeroRest]

RemovedImagesMessage == "The following images were removed in this pull request: "

\* A comparison that returns at the first removed image it meets.
CompareFirstRemoval(order, edgesPR) ==
    LET destinationImages == {Projection(edge) : edge \in edgesPR}
        missing == SelectSeq(order,
                       LAMBDA edge : Projection(edge) \notin destinationImages)
        removedImages == IF Len(missing) = 0 THEN <<>>
                         ELSE <<missing[1].DstImageTag.ImageName>>
    IN [removedImages |-> removedImages,
        err |-> IF Len(removedImages) > 0
                THEN RemovedImagesMessage \o Join(removedImages, ", ")
                ELSE Nil]

\* ImageRemovalCheck.Compare, with the master edges enumerated in `order`.
Compare(order, edgesPR) ==
    LET destinationImages == {Projection(edge) : edge \in edgesPR}
        missing == SelectSeq(order,
                       LAMBDA edge : Projection(edge) \notin destinationImages)
        removedImages == [i \in 1 .. Len(missing) |->
                             missing[i].DstImageTag.ImageName]
    IN [removedImages |-> removedImages,
        err |-> IF Len(removedImages) > 0
                THEN RemovedImagesMessage \o Join(removedImages, ", ")
                ELSE Nil]

\* Two executions of Compare on the same inputs.
CompareRuns == {1, 2}

NotCompared == [done |-> FALSE, removedImages |-> <<>>, err |-> Nil]

CompareInit ==
    /\ edgesMaster \in MasterEdgeSets
    /\ edgesPullRequest \in EdgeSets
    /\ cmpRun = [r \in CompareRuns |-> NotCompared]
    /\ ShiftIdle /\ SizeIdle /\ RunIdle /\ AuditIdle

CallCompare(r) ==
    /\ ~ cmpRun[r].done
    /\ \A q \in CompareRuns : q < r => cmpRun[q].done
    /\ \E order \in Orderings(edgesMaster) :
           LET res == Compare(order, edgesPullRequest)
           IN cmpRun' = [cmpRun EXCEPT ![r] =
                             [done |-> TRUE,
                              removedImages |-> res.removedImages,
                              err |-> res.err]]
    /\ UNCHANGED <<edgesMaster, edgesPullRequest>>
    /\ UNCHANGED <<shiftVars, sizeVars, runVars, auditVars>>

CompareNext == \E r \in CompareRuns : CallCompare(r)

SpecCompare == CompareInit /\ [][CompareNext]_vars

\* The baseline edges whose (DstImageTag, Digest) pair no candidate edge has.
MissingEdges ==
    {e \in edgesMaster :
        ~ \E c \in edgesPullRequest :
            c.DstImageTag = e.DstImageTag /\ c.Digest = e.Digest}

\* C1: Compare succeeds iff every baseline edge's (DstImageTag, Digest) pair is
\* that of some candidate edge; when it fails, the image names listed in the
\* error are exactly the names of the baseline edges whose pair is missing.
C1_CompareExact ==
    \A r \in CompareRuns :
        cmpRun[r].done =>
            /\ (cmpRun[r].err = Nil) <=> (MissingEdges = {})
            /\ Range(cmpRun[r].removedImages) =
                   {e.DstImageTag.ImageName : e \in MissingEdges}
            /\ Len(cmpRun[r].removedImages) = Cardinality(MissingEdges)
            /\ cmpRun[r].err # Nil =>
                   cmpRun[r].err = RemovedImagesMessage \o
                                       Join(cmpRun[r].removedImages, ", ")

\* Compare has failed on a baseline of which one edge is missing from the
\* candidate and another survives in it: the missing edge's name is listed.
C1_Witness ==
    \E r \in CompareRuns :
        /\ cmpRun[r].done
        /\ cmpRun[r].err # Nil
        /\ MissingEdges # {} /\ MissingEdges # edgesMaster
        /\ Range(cmpRun[r].removedImages) =
               {e.DstImageTag.ImageName : e \in MissingEdges}

\* The image names all of whose baseline edges keep their (name, digest)
\* pair in the candidate, under whatever tag.
PathDigestSurvives(name) ==
    \A e \in edgesMaster :
        e.DstImageTag.ImageName = name =>
            \E c \in edgesPullRequest :
                /\ c.DstImageTag.ImageName = name
                /\ c.Digest = e.Digest

\* C5 (as stated): tag churn alone is not a removal: an image name whose
\* baseline (name, digest) pairs are all still in the candidate, under another
\* tag, is not reported as removed.
C5_TagChurnNotRemoval ==
    \A r \in CompareRuns :
        cmpRun[r].done =>
            \A name \in ImageNames :
                PathDigestSurvives(name) =>
                    name \notin Range(cmpRun[r].removedImages)

\* C5 (amended): the comparison key holds the tag.  A baseline edge (p, t, d)
\* is reported as "p removed" exactly when the candidate has no edge with the
\* same name, the same tag and the same digest, also when the candidate has
\* (p, t', d); a candidate edge that differs from it only outside
\* (DstImageTag, Digest) keeps it from being reported.
C5_TagChurnIsRemoval ==
    \A r \in CompareRuns :
        cmpRun[r].done =>
            \A e \in edgesMaster :
                LET sameTagAndDigest ==
                        \E c \in edgesPullRequest :
                            /\ c.DstImageTag.ImageName = e.DstImageTag.ImageName
                            /\ c.DstImageTag.Tag = e.DstImageTag.Tag
                            /\ c.Digest = e.Digest
                IN /\ ~ sameTagAndDigest =>
                          e.DstImageTag.ImageName \in Range(cmpRun[r].removedImages)
                   /\ (\A m \in edgesMaster :
                          m.DstImageTag.ImageName = e.DstImageTag.ImageName =>
                              \E c \in edgesPullRequest :
                                  /\ c.DstImageTag = m.DstImageTag
                                  /\ c.Digest = m.Digest)
                      => e.DstImageTag.ImageName \notin
                             Range(cmpRun[r].removedImages)

\* Compare has run on a baseline edge foo:1.0 whose digest the candidate holds
\* only under the tag 2.0, and has reported foo as removed.
C5_Witness ==
    \E r \in CompareRuns :
        /\ cmpRun[r].done
        /\ \E e \in edgesMaster :
               /\ e.DstImageTag = [ImageName |-> "foo", Tag |-> "1.0"]
               /\ edgesMaster = {e}
               /\ \E c \in edgesPullRequest :
                      /\ c.DstImageTag = [ImageName |-> "foo", Tag |-> "2.0"]
                      /\ c.Digest = e.Digest
               /\ \A c \in edgesPullRequest : c.DstImageTag.Tag # "1.0"
        /\ cmpRun[r].removedImages = <<"foo">>

\* C6 (Compare): two runs of Compare on the same edge sets produce the same
\* error message, whatever order the baseline edges are enumerated in.
C6_SameErrorText ==
    \A r1, r2 \in CompareRuns :
        (cmpRun[r1].done /\ cmpRun[r2].done) => cmpRun[r1].err = cmpRun[r2].err

----------------------------------------------------------------------------
(***************************************************************************)
(* ImageSizeCheck.  Go maps are functions on their key set; a lookup of an *)
(* absent key reads the zero value.                                        *)
(***************************************************************************)

EmptyMap == <<>>

MapPut(m, k, v) == [x \in DOMAIN m \cup {k} |-> IF x = k THEN v ELSE m[x]]

\* check.DigestImageSize[edge.Digest]
SizeOf(digestImageSize, digest) ==
    IF digest \in DOMAIN digestImageSize THEN digestImageSize[digest] ELSE 0

\* A ceiling that the size itself already exceeds.
IsOversizedInclusive(imageSize, maxImageSizeByte) == imageSize >= maxImageSizeByte

\* imageSize > maxImageSizeByte
IsOversized(imageSize, maxImageSizeByte) == imageSize > maxImageSizeByte

\* imageSize <= 0
IsInvalid(imageSize) == imageSize <= 0

\* The loop of ImageSizeCheck.Run over the edges in `order`, from position i.
RECURSIVE SizeLoop(_, _, _, _, _)
SizeLoop(chk, order, i, oversizedImages, invalidImages) ==
    IF i > Len(order)
    THEN [OversizedImages |-> oversizedImages, InvalidImages |-> invalidImages]
    ELSE LET edge == order[i]
             imageSize == SizeOf(chk.DigestImageSize, edge.Digest)
             imageName == edge.DstImageTag.ImageName
             maxImageSizeByte == MBToBytes(chk.MaxImageSize)
         IN SizeLoop(chk, order, i + 1,
                IF IsOversized(imageSize, maxImageSizeByte)
                THEN MapPut(oversizedImages, imageName, imageSize)
                ELSE oversizedImages,
                IF IsInvalid(imageSize)
                THEN MapPut(invalidImages, imageName, imageSize)
                ELSE invalidImages)

\* ImageSizeCheck.Run with check.PullEdges enumerated in `order`: whether it
\* returns an error, and the ImageSizeError it returns.
ImageSizeCheckRun(chk, order) ==
    LET maps == SizeLoop(chk, order, 1, EmptyMap, EmptyMap)
    IN [failed |-> DOMAIN maps.OversizedImages # {} \/
                   DOMAIN maps.InvalidImages # {},
        MaxImageSize |-> chk.MaxImageSize,
        OversizedImages |-> maps.OversizedImages,
        InvalidImages |-> maps.InvalidImages]

\* The image names in lexicographic order.
SortedImageNames == <<"bar", "foo">>

\* sort.Strings on a set of image names.
SortStrings(names) == SelectSeq(SortedImageNames, LAMBDA n : n \in names)

\* ImageSizeError.joinImageSizesToString
JoinImageSizesToString(imageSizes) ==
    LET imageNames == SortStrings(DOMAIN imageSizes)
    IN Join([i \in 1 .. Len(imageNames) |->
                imageNames[i] \o " (" \o
                ToString(BytesToMB(imageSizes[imageNames[i]])) \o " MiB)"],
            "\n")

\* ImageSizeError.Error
ImageSizeErrorText(err) ==
    (IF DOMAIN err.OversizedImages # {}
     THEN "The following images were over the max file size of " \o
          ToString(err.MaxImageSize) \o "MiB:\n" \o
          JoinImageSizesToString(err.OversizedImages) \o "\n"
     ELSE "") \o
    (IF DOMAIN err.InvalidImages # {}
     THEN "The following images had an invalid file size of 0 bytes or less:\n" \o
          JoinImageSizesToString(err.InvalidImages) \o "\n"
     ELSE "")

\* Largest ceiling, in MiB, given to the size check.
MaxCeilingMB == 2

\* The sizes an inventory reports: broken ones, a small one, and each ceiling
\* and the byte after it.
ImageSizes ==
    {-5, 0, 500} \cup
    {m * 1048576 + d : m \in 1 .. MaxCeilingMB, d \in {0, 1}}

\* The digest-to-size lookups: a size for some of the digests.
DigestImageSizes ==
    UNION {[ds -> ImageSizes] : ds \in SUBSET Digests}

\* The edge sets of the size check, whose outcome the name and the digest of
\* an edge decide.
SizeEdgeSets ==
    SetsUpTo({e \in PromotionEdges :
                 e.Rest = "gcr.io/staging-a" /\ e.DstImageTag.Tag = "1.0"},
             MaxEdges)

\* Two executions of Run, and of Error on its result, on the same check.
SizeRuns == {1, 2}

NotSized ==
    [done |-> FALSE, failed |-> FALSE, MaxImageSize |-> 0,
     OversizedImages |-> EmptyMap, InvalidImages |-> EmptyMap, text |-> ""]

\* MKRealImageSizeCheck
SizeInit ==
    /\ \E maxImageSize \in 1 .. MaxCeilingMB, sizes \in DigestImageSizes,
          edges \in SizeEdgeSets :
           sizeCheck = [MaxImageSize |-> maxImageSize,
                        DigestImageSize |-> sizes,
                        PullEdges |-> edges]
    /\ sizeRun = [r \in SizeRuns |-> NotSized]
    /\ ShiftIdle /\ CmpIdle /\ RunIdle /\ AuditIdle

CallImageSizeCheckRun(r) ==
    /\ ~ sizeRun[r].done
    /\ \A q \in SizeRuns : q < r => sizeRun[q].done
    /\ \E order \in Orderings(sizeCheck.PullEdges) :
           LET res == ImageSizeCheckRun(sizeCheck, order)
           IN sizeRun' = [sizeRun EXCEPT ![r] =
                             [done |-> TRUE,
                              failed |-> res.failed,
                              MaxImageSize |-> res.MaxImageSize,
                              OversizedImages |-> res.OversizedImages,
                              InvalidImages |-> res.InvalidImages,
                              text |-> IF res.failed
                                       THEN ImageSizeErrorText(res) ELSE ""]]
    /\ UNCHANGED sizeCheck
    /\ UNCHANGED <<shiftVars, cmpVars, runVars, auditVars>>

SizeNext == \E r \in SizeRuns : CallImageSizeCheckRun(r)

SpecSize == SizeInit /\ [][SizeNext]_vars

\* The size the lookup of the check gives for an edge.
LookedUpSize(edge) ==
    IF edge.Digest \in DOMAIN sizeCheck.DigestImageSize
    THEN sizeCheck.DigestImageSize[edge.Digest] ELSE 0

\* C2: with a ceiling of M MiB, Run succeeds iff every candidate edge's size s
\* has 0 < s <= M * 2^20; otherwise the oversized keys are exactly the names of
\* the edges with s > M * 2^20 and the invalid keys exactly the names of the
\* edges with s <= 0 (an absent digest reads as 0).  At M = 1, 1048577 is
\* oversized, 1048576 is not, 0 and -5 are invalid and 500 is neither.
C2_SizeCheckExact ==
    \A r \in SizeRuns :
        sizeRun[r].done =>
            LET ceiling == sizeCheck.MaxImageSize * 1048576
                edges == sizeCheck.PullEdges
                over == {e \in edges : LookedUpSize(e) > ceiling}
                bad == {e \in edges : LookedUpSize(e) <= 0}
            IN /\ (~ sizeRun[r].failed) <=>
                      \A e \in edges :
                          0 < LookedUpSize(e) /\ LookedUpSize(e) <= ceiling
               /\ DOMAIN sizeRun[r].OversizedImages =
                      {e.DstImageTag.ImageName : e \in over}
               /\ DOMAIN sizeRun[r].InvalidImages =
                      {e.DstImageTag.ImageName : e \in bad}
               /\ (sizeCheck.MaxImageSize = 1 /\ Cardinality(edges) = 1) =>
                      \A e \in edges :
                          LET name == e.DstImageTag.ImageName
                              s == LookedUpSize(e)
                          IN /\ s = 1048577 =>
                                    name \in DOMAIN sizeRun[r].OversizedImages
                             /\ s = 1048576 =>
                                    name \notin DOMAIN sizeRun[r].OversizedImages
                             /\ s \in {0, -5} =>
                                    name \in DOMAIN sizeRun[r].InvalidImages
                             /\ s \in {500, 1048576} => ~ sizeRun[r].failed

\* Run has failed at a ceiling of 1 MiB on one image of 1048577 bytes, reported
\* oversized, and one whose digest the lookup does not hold, reported invalid.
C2_Witness ==
    \E r \in SizeRuns :
        /\ sizeRun[r].done /\ sizeRun[r].failed
        /\ sizeCheck.MaxImageSize = 1
        /\ \E e1, e2 \in sizeCheck.PullEdges :
               /\ e1.DstImageTag.ImageName = "foo"
               /\ e2.DstImageTag.ImageName = "bar"
               /\ e1.Digest \in DOMAIN sizeCheck.DigestImageSize
               /\ sizeCheck.DigestImageSize[e1.Digest] = 1048577
               /\ e2.Digest \notin DOMAIN sizeCheck.DigestImageSize
        /\ DOMAIN sizeRun[r].OversizedImages = {"foo"}
        /\ DOMAIN sizeRun[r].InvalidImages = {"bar"}

\* Run has succeeded at a ceiling of 1 MiB on an image of exactly 1048576
\* bytes.
C2_WitnessAtCeiling ==
    \E r \in SizeRuns :
        /\ sizeRun[r].done /\ ~ sizeRun[r].failed
        /\ sizeCheck.MaxImageSize = 1
        /\ \E e \in sizeCheck.PullEdges : LookedUpSize(e) = 1048576

\* C6 (size check): two runs of Run and Error on the same check produce the
\* same error text, whatever order the edges are enumerated in.
C6_SameSizeErrorText ==
    \A r1, r2 \in SizeRuns :
        (sizeRun[r1].done /\ sizeRun[r2].done) =>
            sizeRun[r1].text = sizeRun[r2].text

----------------------------------------------------------------------------
(***************************************************************************)
(* MKRealImageRemovalCheck.  An environment value is a sequence of         *)
(* characters (the empty one for an unset variable); a Git hash is the     *)
(* sequence of the 20 bytes its hexadecimal form decodes to.               *)
(***************************************************************************)

gitShaLength == 40

HexLower == <<"0", "1", "2", "3", "4", "5", "6", "7", "8", "9",
              "a", "b", "c", "d", "e", "f">>

HexUpper == <<"A", "B", "C", "D", "E", "F">>

IsHexChar(c) == c \in Range(HexLower) \cup Range(HexUpper)

HexVal(c) ==
    IF c \in Range(HexLower)
    THEN (CHOOSE i \in 1 .. 16 : HexLower[i] = c) - 1
    ELSE 9 + (CHOOSE i \in 1 .. 6 : HexUpper[i] = c)

\* The number of leading byte pairs of s that are hexadecimal.
RECURSIVE DecodablePairs(_, _)
DecodablePairs(s, i) ==
    IF 2 * i > Len(s) \/ ~ IsHexChar(s[2 * i - 1]) \/ ~ IsHexChar(s[2 * i])
    THEN i - 1
    ELSE DecodablePairs(s, i + 1)

\* A decoder that accepts every string.
HexDecodeFailsNever(s) == FALSE

\* hex.DecodeString(s) returns an error: s has an odd length or holds a
\* character that is no hexadecimal digit.
HexDecodeFails(s) ==
    Len(s) % 2 = 1 \/ \E i \in 1 .. Len(s) : ~ IsHexChar(s[i])

\* The bytes hex.DecodeString(s) returns: those before the first bad pair.
HexDecode(s) ==
    [i \in 1 .. DecodablePairs(s, 1) |->
        16 * HexVal(s[2 * i - 1]) + HexVal(s[2 * i])]

\* plumbing.Hash{}
ZeroHash == [i \in 1 .. 20 |-> 0]

\* plumbing.NewHash(s): the decoded bytes copied into a zeroed 20-byte array.
NewHash(s) ==
    LET b == HexDecode(s)
    IN [i \in 1 .. 20 |-> IF i <= Len(b) THEN b[i] ELSE 0]

\* getGitShaFromEnv(envVar)
getGitShaFromEnv(envVar) ==
    LET potenitalSHA == env[envVar]
    IN IF Len(potenitalSHA) # gitShaLength
       THEN [hash |-> ZeroHash,
             err |-> "Length of SHA is " \o ToString(Len(potenitalSHA)) \o
                     " characters, should be " \o ToString(gitShaLength)]
       ELSE IF HexDecodeFails(potenitalSHA)
       THEN [hash |-> ZeroHash,
             err |-> "Not a valid SHA: encoding/hex: invalid byte"]
       ELSE [hash |-> NewHash(potenitalSHA), err |-> Nil]

\* The nil *ImageRemovalCheck.
NilCheck ==
    [isNil |-> TRUE, MasterSHA |-> ZeroHash, PullRequestSHA |-> ZeroHash,
     PullEdges |-> {}]

\* MKRealImageRemovalCheck(gitRepoPath, edges)
MKRealImageRemovalCheck(edges) ==
    LET master == getGitShaFromEnv("PULL_BASE_SHA")
        pullRequest == getGitShaFromEnv("PULL_PULL_SHA")
    IN IF master.err # Nil
       THEN [check |-> NilCheck,
             err |-> "The PULL_BASE_SHA environment variable is invalid: " \o
                     master.err]
       ELSE IF pullRequest.err # Nil
       THEN [check |-> NilCheck,
             err |-> "The PULL_PULL_SHA environment variable is invalid: " \o
                     pullRequest.err]
       ELSE [check |-> [isNil |-> FALSE,
                        MasterSHA |-> master.hash,
                        PullRequestSHA |-> pullRequest.hash,
                        PullEdges |-> edges],
             err |-> Nil]

Rep(c, n) == [i \in 1 .. n |-> c]

\* The hexadecimal names of the repository's two commits: the head of the
\* master branch and the head of the pull request.
MasterCommit == Rep("a", gitShaLength)

PullRequestCommit == [i \in 1 .. gitShaLength |-> IF i % 2 = 1 THEN "1" ELSE "f"]

\* What a Prow job may leave in PULL_BASE_SHA and PULL_PULL_SHA: nothing, a
\* commit's name (in either case of the letters), one a character short or
\* long, one with a letter that is no hexadecimal digit.
EnvValues ==
    { <<>>,
      MasterCommit,
      Rep("A", gitShaLength),
      PullRequestCommit,
      Rep("a", gitShaLength - 1),
      Rep("a", gitShaLength + 1),
      [MasterCommit EXCEPT ![gitShaLength] = "g"],
      [PullRequestCommit EXCEPT ![1] = "-"] }

----------------------------------------------------------------------------
(***************************************************************************)
(* ImageRemovalCheck.Run, one step per access to the working tree: the     *)
(* opening of the repository, the checkout of the master branch, the parse *)
(* of its manifests, the checkout of the pull request, the comparison.     *)
(***************************************************************************)

\* The Runs of the check, executed on the same working tree.  For each Run the
\* model keeps, beside its position, the tree it left when it returned
\* (treeAtReturn); trace is the history of the checkouts, parses and
\* comparisons of all Runs, in the order they happened.
RunIds == {1, 2}

\* The working tree: the commit it was last checked out at, and whether that
\* checkout completed.
CleanTree(hash) == [head |-> hash, clean |-> TRUE]

RepoCommits == {NewHash(MasterCommit), NewHash(PullRequestCommit)}

\* The edge sets the manifests of a revision may yield.
RunEdgeSets ==
    SUBSET {e \in PromotionEdges :
               /\ e.Rest = "gcr.io/staging-a"
               /\ e.DstImageTag.Tag = "1.0"
               /\ e.Digest = "sha256:1f"}

\* The repository: whether the manifests of the master branch parse
\* ("unparsable": ParseThinManifestsFromDir fails; "overlapping":
\* ToPromotionEdges fails), the edges they yield, and the edges of the pull
\* request, from which the caller has built the check's PullEdges.
Repos ==
    [masterManifests : {"ok", "unparsable", "overlapping"},
     masterEdges : RunEdgeSets,
     pullEdges : RunEdgeSets]

\* ParseThinManifestsFromDir and ToPromotionEdges on the working tree t.
ManifestsAt(t) ==
    IF ~ t.clean THEN [status |-> "unparsable", edges |-> {}]
    ELSE IF t.head = NewHash(MasterCommit)
    THEN [status |-> repo.masterManifests,
          edges |-> IF repo.masterManifests = "ok" THEN repo.masterEdges ELSE {}]
    ELSE [status |-> "ok", edges |-> repo.pullEdges]

IdleRun ==
    [pc |-> "idle", masterEdges |-> {}, exit |-> Nil, err |-> Nil,
     treeAtReturn |-> CleanTree(ZeroHash)]

\* A return statement of Run: which one, the error it returns, and the
\* working tree it leaves.
Return(p, exit, err, treeLeft) ==
    runs' = [runs EXCEPT ![p].pc = "returned", ![p].exit = exit,
                         ![p].err = err, ![p].treeAtReturn = treeLeft]

Goto(p, label) == runs' = [runs EXCEPT ![p].pc = label]

Event(p, op, hash, ok) == [run |-> p, op |-> op, hash |-> hash, ok |-> ok]

OpenErr == "Could not open the Git repo: repository does not exist"

WorktreeErr == "Could not create Git worktree: worktree not available in a bare repository"

CheckoutMasterErr == "Could not checkout the master branch of the Git repo: checkout failed"

ParseErr == "Could not parse manifests from the directory: parse failed"

EdgesErr == "Could not generate promotion edges from promoter manifests: overlapping edges"

CheckoutPullRequestErr == "Could not checkout the pull request branch of the Git repo: checkout failed"

\* w.Checkout(Hash: hash, Force: true): it succeeds and leaves the tree at the
\* commit, or fails (always, for a hash that names no commit) and leaves the
\* tree as it was or partly rewritten.
CheckoutOutcomes(hash) ==
    {[ok |-> TRUE, tree |-> CleanTree(hash)] : h \in {hash} \cap RepoCommits}
    \cup {[ok |-> FALSE, tree |-> tree],
          [ok |-> FALSE, tree |-> [tree EXCEPT !.clean = FALSE]]}

RunInit ==
    /\ env \in [{"PULL_BASE_SHA", "PULL_PULL_SHA"} -> EnvValues]
    /\ repo \in Repos
    /\ mkPc = "start"
    /\ check = NilCheck
    /\ mkErr = Nil
    /\ tree = CleanTree(NewHash(PullRequestCommit))
    /\ runs = [p \in RunIds |-> IdleRun]
    /\ trace = <<>>
    /\ ShiftIdle /\ CmpIdle /\ SizeIdle /\ AuditIdle

RunFrame == UNCHANGED <<shiftVars, cmpVars, sizeVars, auditVars>>

CallMKRealImageRemovalCheck ==
    /\ mkPc = "start"
    /\ LET made == MKRealImageRemovalCheck(repo.pullEdges)
       IN check' = made.check /\ mkErr' = made.err
    /\ mkPc' = "returned"
    /\ UNCHANGED <<env, repo, tree, runs, trace>>
    /\ RunFrame

\* Lines 87-94: the receiver is dereferenced (a nil check panics), the
\* repository is opened and its worktree taken.
RunOpen(p) ==
    /\ mkPc = "returned"
    /\ runs[p].pc = "idle"
    /\ IF check.isNil
       THEN Goto(p, "panicked")
       ELSE \/ Return(p, "open", OpenErr, tree)
            \/ Return(p, "worktree", WorktreeErr, tree)
            \/ Goto(p, "checkoutMaster")
    /\ UNCHANGED <<env, mkPc, check, mkErr, repo, tree, trace>>
    /\ RunFrame

\* Lines 99-106
RunCheckoutMaster(p) ==
    /\ runs[p].pc = "checkoutMaster"
    /\ \E out \in CheckoutOutcomes(check.MasterSHA) :
           /\ tree' = out.tree
           /\ trace' = Append(trace,
                           Event(p, "checkout", check.MasterSHA, out.ok))
           /\ IF out.ok
              THEN Goto(p, "parse")
              ELSE Return(p, "checkoutMaster", CheckoutMasterErr, out.tree)
    /\ UNCHANGED <<env, mkPc, check, mkErr, repo>>
    /\ RunFrame

\* A Run that compares right after the parse, without the restoring checkout.
AfterParseCompare == "compare"

\* The step that follows the construction of the master edges (line 121).
AfterParse == "checkoutPullRequest"

\* Lines 108-117
RunParse(p) ==
    /\ runs[p].pc = "parse"
    /\ LET mfests == ManifestsAt(tree)
       IN /\ trace' = Append(trace,
                          Event(p, "parse", tree.head, mfests.status = "ok"))
          /\ CASE mfests.status = "unparsable" ->
                    Return(p, "parse", ParseErr, tree)
               [] mfests.status = "overlapping" ->
                    Return(p, "edges", EdgesErr, tree)
               [] OTHER ->
                    runs' = [runs EXCEPT ![p].pc = AfterParse,
                                         ![p].masterEdges = mfests.edges]
    /\ UNCHANGED <<env, mkPc, check, mkErr, repo, tree>>
    /\ RunFrame

\* Lines 121-129
RunCheckoutPullRequest(p) ==
    /\ runs[p].pc = "checkoutPullRequest"
    /\ \E out \in CheckoutOutcomes(check.PullRequestSHA) :
           /\ tree' = out.tree
           /\ trace' = Append(trace,
                           Event(p, "checkout", check.PullRequestSHA, out.ok))
           /\ IF out.ok
              THEN Goto(p, "compare")
              ELSE Return(p, "checkoutPullRequest", CheckoutPullRequestErr,
                          out.tree)
    /\ UNCHANGED <<env, mkPc, check, mkErr, repo>>
    /\ RunFrame

\* Line 131
RunCompare(p) ==
    /\ runs[p].pc = "compare"
    /\ \E order \in Orderings(runs[p].masterEdges) :
           Return(p, "compare", Compare(order, check.PullEdges).err, tree)
    /\ trace' = Append(trace, Event(p, "compare", tree.head, TRUE))
    /\ UNCHANGED <<env, mkPc, check, mkErr, repo, tree>>
    /\ RunFrame

Finished(p) == runs[p].pc \in {"returned", "panicked"}

\* A caller that executes the Runs one after the other.
RunOpenSerially(p) ==
    /\ \A q \in RunIds : q < p => Finished(q)
    /\ \A q \in RunIds : q > p => runs[q].pc = "idle"
    /\ RunOpen(p)

Next ==
    \/ CallMKRealImageRemovalCheck
    \/ \E p \in RunIds : RunOpenSerially(p)
    \/ \E p \in RunIds : RunCheckoutMaster(p)
    \/ \E p \in RunIds : RunParse(p)
    \/ \E p \in RunIds : RunCheckoutPullRequest(p)
    \/ \E p \in RunIds : RunCompare(p)

Spec == RunInit /\ [][Next]_vars

\* The working tree is on the candidate (pull request) revision.
OnCandidate(t) == t.clean /\ t.head = check.PullRequestSHA

\* C3: on every exit path of Run taken after the baseline checkout has
\* succeeded (a parse failure, a failure to build the baseline edges, a
\* comparison), the working tree is on the candidate revision when Run
\* returns, unless the restoring checkout itself failed.
C3_TreeRestoredOnEveryExit ==
    \A p \in RunIds :
        (runs[p].pc = "returned" /\ runs[p].exit \in {"parse", "edges", "compare"})
            => OnCandidate(runs[p].treeAtReturn)

HexDigitChars ==
    {"0", "1", "2", "3", "4", "5", "6", "7", "8", "9",
     "a", "b", "c", "d", "e", "f", "A", "B", "C", "D", "E", "F"}

\* Exactly 40 characters, each a hexadecimal digit.
WellFormedSha(v) == Len(v) = 40 /\ \A i \in 1 .. Len(v) : v[i] \in HexDigitChars

\* What the error of a rejected variable says after naming it.
ShaErrorDetails ==
    {"Length of SHA is " \o ToString(n) \o " characters, should be 40" :
        n \in 0 .. 41}
    \cup {"Not a valid SHA: encoding/hex: invalid byte"}

\* C4: MKRealImageRemovalCheck returns a check only if PULL_BASE_SHA and
\* PULL_PULL_SHA are both exactly 40 hexadecimal characters; otherwise it
\* returns no check and an error naming an offending variable, and no checkout
\* of the working tree is ever attempted.
C4_ConstructionValidates ==
    mkPc = "returned" =>
        /\ (~ check.isNil) <=>
               (WellFormedSha(env["PULL_BASE_SHA"]) /\
                WellFormedSha(env["PULL_PULL_SHA"]))
        /\ (~ check.isNil) => mkErr = Nil
        /\ check.isNil =>
               /\ \E var \in {"PULL_BASE_SHA", "PULL_PULL_SHA"} :
                      /\ ~ WellFormedSha(env[var])
                      /\ \E detail \in ShaErrorDetails :
                             mkErr = "The " \o var \o
                                     " environment variable is invalid: " \o
                                     detail
               /\ \A i \in 1 .. Len(trace) : trace[i].op # "checkout"
               /\ tree = CleanTree(NewHash(PullRequestCommit))

\* PULL_BASE_SHA names a commit and PULL_PULL_SHA is 39 characters long: the
\* constructor has returned no check and an error naming PULL_PULL_SHA, a Run
\* has been attempted on the nil check, and nothing was checked out.
C4_Witness ==
    /\ mkPc = "returned"
    /\ env["PULL_BASE_SHA"] = MasterCommit
    /\ Len(env["PULL_PULL_SHA"]) = 39
    /\ check.isNil
    /\ mkErr = "The PULL_PULL_SHA environment variable is invalid: " \o
               "Length of SHA is 39 characters, should be 40"
    /\ \E p \in RunIds : runs[p].pc = "panicked"
    /\ trace = <<>>

\* The steps of one Run that touch or read the working tree, in order.
RunSteps == <<"checkout", "parse", "checkout", "compare">>

EventsOf(p) == SelectSeq(trace, LAMBDA e : e.run = p)

\* C10: the steps of Run are the baseline checkout, the parse and edge
\* construction, the restoring checkout, the comparison, each reached only if
\* the one before succeeded.  Compare is reached only after the restoring
\* checkout succeeded, so a Run that returns a comparison result (of Runs
\* executed one after the other) returns with the tree on the candidate
\* revision; a Run whose restoring checkout fails returns the checkout error
\* and never compares.
C10_StepOrder ==
    \A p \in RunIds :
        LET mine == EventsOf(p)
        IN /\ Len(mine) <= Len(RunSteps)
           /\ \A i \in 1 .. Len(mine) :
                  /\ mine[i].op = RunSteps[i]
                  /\ i = 1 => mine[i].hash = check.MasterSHA
                  /\ i = 2 => mine[i].hash = check.MasterSHA
                  /\ i = 3 => mine[i].hash = check.PullRequestSHA
                  /\ i < Len(mine) => mine[i].ok
           /\ runs[p].pc = "compare" =>
                  /\ Len(mine) = 3 /\ mine[3].ok
                  /\ OnCandidate(tree)
           /\ (runs[p].pc = "returned" /\ runs[p].exit = "compare") =>
                  /\ Len(mine) = 4
                  /\ OnCandidate(runs[p].treeAtReturn)
                  /\ (runs[p].err = Nil) <=>
                         \A e \in runs[p].masterEdges :
                             \E c \in check.PullEdges :
                                 /\ c.DstImageTag = e.DstImageTag
                                 /\ c.Digest = e.Digest
           /\ (runs[p].pc = "returned" /\ runs[p].exit = "checkoutPullRequest") =>
                  /\ Len(mine) = 3 /\ ~ mine[3].ok
                  /\ runs[p].err = CheckoutPullRequestErr

\* Two Runs, one after the other, between a master branch and a pull request
\* at different commits: the first has returned "images removed", the second
\* has compared too, and each returned with the tree on the pull request.
C10_Witness ==
    /\ check.MasterSHA # check.PullRequestSHA
    /\ \A p \in RunIds :
           /\ runs[p].pc = "returned" /\ runs[p].exit = "compare"
           /\ OnCandidate(runs[p].treeAtReturn)
    /\ runs[1].err = RemovedImagesMessage \o "foo"
    /\ Len(trace) = 8

----------------------------------------------------------------------------
(***************************************************************************)
(* Runs of the check called concurrently on the same working tree.  Run    *)
(* takes no lock and go-git's Checkout takes none: between any two of its  *)
(* statements another Run may execute any of its own.                      *)
(***************************************************************************)

NextConcurrent ==
    \/ CallMKRealImageRemovalCheck
    \/ \E p \in RunIds : RunOpen(p)
    \/ \E p \in RunIds : RunCheckoutMaster(p)
    \/ \E p \in RunIds : RunParse(p)
    \/ \E p \in RunIds : RunCheckoutPullRequest(p)
    \/ \E p \in RunIds : RunCompare(p)

SpecConcurrent == RunInit /\ [][NextConcurrent]_vars

\* The Run is between its baseline checkout and its restoring checkout.
InCriticalSection(p) == runs[p].pc \in {"parse", "checkoutPullRequest"}

\* C11: when Runs execute concurrently on one working tree, no other checkout
\* of the tree happens between a Run's baseline checkout and its restoring
\* checkout: while a Run is between the two the tree is still the clean tree
\* of its baseline revision, and every parse has read the manifests of the
\* baseline revision.
C11_CriticalSection ==
    /\ \A p \in RunIds :
           InCriticalSection(p) => tree = CleanTree(check.MasterSHA)
    /\ \A i \in 1 .. Len(trace) :
           trace[i].op = "parse" => trace[i].hash = check.MasterSHA

\* What the interleaving costs: a Run has parsed the pull request's manifests
\* as its baseline and returned "no image removed", although the pull request
\* removes an image of the master branch.
C11_RemovalMissed ==
    \E p \in RunIds :
        /\ runs[p].pc = "returned" /\ runs[p].exit = "compare"
        /\ runs[p].err = Nil
        /\ repo.masterManifests = "ok"
        /\ \E e \in repo.masterEdges : e \notin check.PullEdges

----------------------------------------------------------------------------
(***************************************************************************)
(* The audit verifier, on the test cases of test-e2e/cip-auditor.  A test  *)
(* case fixes the promotion edges of its manifests and the INSERT events   *)
(* its mutations cause; the verifier takes each delivered event through    *)
(* received -> evaluated -> verified | rejected and writes one transaction *)
(* line for it.                                                            *)
(***************************************************************************)

BarPath == "us.gcr.io/k8s-gcr-audit-test-prod/golden-bar/bar"

BarDigest == "sha256:408d6837313f95f081d5d02cc2691344c5781d43e98653f4af6cf9c1b8d26166"

FooPath == "us.gcr.io/k8s-gcr-audit-test-prod/golden-foo/foo"

SubprojectFooPath == "us.gcr.io/k8s-gcr-audit-test-prod/subproject-foo/foo"

FatDigest == "sha256:a42e27f5d18d51c581efef2584ff9aebbfeffcb3145e81e52b1dccf62915e4a3"

ChildDigest1 == "sha256:2af5205553239e0eb17c544bc1e90c2d6173012a191f0a44131aa2f9c44bb511"

ChildDigest2 == "sha256:2740382935148a02bf425a893d14848dd6238e405935440ce5c13b771a33f2fd"

InsertEvent(path, digest, tag) ==
    [Action |-> "INSERT", Path |-> path, Digest |-> digest, Tag |-> tag]

AuditEdge(path, tag, digest, parent) ==
    [DstImageTag |-> [ImageName |-> path, Tag |-> tag],
     Digest |-> digest,
     ParentDigest |-> parent]

\* The edges of a manifest that promotes one fat manifest to `path`: its two
\* children, untagged, and the fat manifest itself under the tag 1.0.
FatManifestEdges(path) ==
    { AuditEdge(path, "", ChildDigest1, FatDigest),
      AuditEdge(path, "", ChildDigest2, FatDigest),
      AuditEdge(path, "1.0", FatDigest, "") }

\* The events the promotion of the fat manifest to `path` causes.
FatManifestEvents(path) ==
    { InsertEvent(path, ChildDigest1, ""),
      InsertEvent(path, ChildDigest2, ""),
      InsertEvent(path, FatDigest, "1.0") }

\* The logMatch lines of the fat-manifest test cases.
FatManifestLogMatch(path) ==
    { "TRANSACTION VERIFIED: {Action: \"INSERT\", FQIN: \"" \o path \o "@" \o
      ChildDigest1 \o "\", PQIN: \"\", Path: \"" \o path \o "\", Digest: \"" \o
      ChildDigest1 \o "\", Tag: \"\"}: agrees with manifest (parent digest " \o
      FatDigest \o ")",
      "TRANSACTION VERIFIED: {Action: \"INSERT\", FQIN: \"" \o path \o "@" \o
      ChildDigest2 \o "\", PQIN: \"\", Path: \"" \o path \o "\", Digest: \"" \o
      ChildDigest2 \o "\", Tag: \"\"}: agrees with manifest (parent digest " \o
      FatDigest \o ")",
      "TRANSACTION VERIFIED: {Action: \"INSERT\", FQIN: \"" \o path \o "@" \o
      FatDigest \o "\", PQIN: \"" \o path \o ":1.0\", Path: \"" \o path \o
      "\", Digest: \"" \o FatDigest \o "\", Tag: \"1.0\"}: agrees with manifest" }

\* The test case "basic".
BasicCase ==
    [name |-> "basic",
     edges |-> {AuditEdge(BarPath, "1.0", BarDigest, "")},
     events |-> {InsertEvent(BarPath, BarDigest, "1.0"),
                 InsertEvent(BarPath, BarDigest, "2.0")},
     logMatch |->
        { "TRANSACTION VERIFIED: {Action: \"INSERT\", FQIN: \"" \o BarPath \o
          "@" \o BarDigest \o "\", PQIN: \"" \o BarPath \o ":1.0\", Path: \"" \o
          BarPath \o "\", Digest: \"" \o BarDigest \o
          "\", Tag: \"1.0\"}: agrees with manifest",
          "TRANSACTION REJECTED: {Action: \"INSERT\", FQIN: \"" \o BarPath \o
          "@" \o BarDigest \o "\", PQIN: \"" \o BarPath \o ":2.0\", Path: \"" \o
          BarPath \o "\", Digest: \"" \o BarDigest \o
          "\", Tag: \"2.0\"}: could not validate" }]

\* The test case "fatManifest".
FatManifestCase ==
    [name |-> "fatManifest",
     edges |-> FatManifestEdges(FooPath),
     events |-> FatManifestEvents(FooPath),
     logMatch |-> FatManifestLogMatch(FooPath)]

\* The test case "fatManifest-subproject-different-prefix".
FatManifestSubprojectCase ==
    [name |-> "fatManifest-subproject-different-prefix",
     edges |-> FatManifestEdges(SubprojectFooPath),
     events |-> FatManifestEvents(SubprojectFooPath),
     logMatch |-> FatManifestLogMatch(SubprojectFooPath)]

AuditCases == {BasicCase, FatManifestCase, FatManifestSubprojectCase}

\* Most events delivered to one verifier, repeated deliveries included.
MaxDeliveries == 4

\* A match that compares the path and the digest only.
MatchingEdgesIgnoringTag(edges, event) ==
    {x \in edges :
        /\ x.DstImageTag.ImageName = event.Path
        /\ x.Digest = event.Digest}

\* The edges equal to the event in (DstImageTag{Path, Tag}, Digest).
MatchingEdges(edges, event) ==
    {x \in edges :
        /\ x.DstImageTag = [ImageName |-> event.Path, Tag |-> event.Tag]
        /\ x.Digest = event.Digest}

\* A note that names a parent digest on every agreeing transaction.
ParentNoteAlways(edge) == " (parent digest " \o edge.Digest \o ")"

\* What a transaction that agrees with `edge` adds to "agrees with manifest".
ParentNote(edge) ==
    IF edge.ParentDigest # ""
    THEN " (parent digest " \o edge.ParentDigest \o ")"
    ELSE ""

\* The text of an event in a transaction line.
EventText(event) ==
    "{Action: \"" \o event.Action \o
    "\", FQIN: \"" \o event.Path \o "@" \o event.Digest \o
    "\", PQIN: \"" \o
        (IF event.Tag = "" THEN "" ELSE event.Path \o ":" \o event.Tag) \o
    "\", Path: \"" \o event.Path \o
    "\", Digest: \"" \o event.Digest \o
    "\", Tag: \"" \o event.Tag \o "\"}"

NoEdge == AuditEdge("", "", "", "")

AuditInit ==
    /\ auditCase \in AuditCases
    /\ txns = <<>>
    /\ ShiftIdle /\ CmpIdle /\ SizeIdle /\ RunIdle

AuditFrame == UNCHANGED <<shiftVars, cmpVars, sizeVars, runVars>>

\* An INSERT event is delivered; the same event may be delivered again.
Receive(event) ==
    /\ Len(txns) < MaxDeliveries
    /\ txns' = Append(txns, [event |-> event, state |-> "received",
                             found |-> FALSE, edge |-> NoEdge, line |-> ""])
    /\ UNCHANGED auditCase
    /\ AuditFrame

\* The event of transaction i is matched against the edge set.
Evaluate(i) ==
    /\ i \in 1 .. Len(txns)
    /\ txns[i].state = "received"
    /\ LET matching == MatchingEdges(auditCase.edges, txns[i].event)
       IN txns' = [txns EXCEPT
                      ![i].state = "evaluated",
                      ![i].found = matching # {},
                      ![i].edge = IF matching = {} THEN NoEdge
                                  ELSE CHOOSE x \in matching : TRUE]
    /\ UNCHANGED auditCase
    /\ AuditFrame

\* Transaction i gets its verdict and its line.
Conclude(i) ==
    /\ i \in 1 .. Len(txns)
    /\ txns[i].state = "evaluated"
    /\ txns' = [txns EXCEPT
                   ![i].state = IF txns[i].found THEN "verified" ELSE "rejected",
                   ![i].line =
                       IF txns[i].found
                       THEN "TRANSACTION VERIFIED: " \o EventText(txns[i].event) \o
                            ": agrees with manifest" \o ParentNote(txns[i].edge)
                       ELSE "TRANSACTION REJECTED: " \o EventText(txns[i].event) \o
                            ": could not validate"]
    /\ UNCHANGED auditCase
    /\ AuditFrame

AuditNext ==
    \/ \E event \in auditCase.events : Receive(event)
    \/ \E i \in 1 .. MaxDeliveries : Evaluate(i)
    \/ \E i \in 1 .. MaxDeliveries : Conclude(i)

\* The verifier handles every event it has received to the end: while a
\* transaction waits for its evaluation, or for its verdict, one is given.
AuditFairness ==
    /\ WF_vars(\E i \in 1 .. MaxDeliveries : Evaluate(i))
    /\ WF_vars(\E i \in 1 .. MaxDeliveries : Conclude(i))

SpecAudit == AuditInit /\ [][AuditNext]_vars /\ AuditFairness

Terminal(i) == i <= Len(txns) /\ txns[i].state \in {"verified", "rejected"}

\* The edge set holds an edge equal to the event in path, tag and digest.
Agrees(event) ==
    \E x \in auditCase.edges :
        /\ x.DstImageTag.ImageName = event.Path
        /\ x.DstImageTag.Tag = event.Tag
        /\ x.Digest = event.Digest

C8_Verdicts ==
    \A i \in 1 .. Len(txns) :
        LET t == txns[i]
        IN /\ t.state \in {"received", "evaluated", "verified", "rejected"}
           /\ t.state = "verified" => Agrees(t.event)
           /\ t.state = "rejected" =>
                  /\ ~ Agrees(t.event)
                  /\ t.line = "TRANSACTION REJECTED: " \o EventText(t.event) \o
                              ": could not validate"
           /\ (t.line # "") <=> Terminal(i)
           /\ (Terminal(i) /\ t.event = InsertEvent(BarPath, BarDigest, "2.0"))
                  => t.state = "rejected" /\ t.line \in BasicCase.logMatch

C8_VerdictIsFinal ==
    \A i \in 1 .. Len(txns) : Terminal(i) => txns'[i] = txns[i]

\* C8: every received INSERT event reaches exactly one terminal verdict:
\* VERIFIED iff the edge set holds an edge equal to the event in path, tag and
\* digest, otherwise REJECTED with "could not validate"; the event tagged 2.0
\* against the edge tagged 1.0 is REJECTED.
C8_EveryEventOneVerdict ==
    /\ [] C8_Verdicts
    /\ [][C8_VerdictIsFinal]_vars
    /\ []<>(\A i \in 1 .. Len(txns) : Terminal(i))

\* In the test case "basic" the push of bar:1.0 has been verified and the push
\* of bar:2.0, of the same digest, has been rejected.
C8_Witness ==
    /\ auditCase.name = "basic"
    /\ \E i, j \in 1 .. Len(txns) :
           /\ txns[i].event.Tag = "1.0" /\ txns[i].state = "verified"
           /\ txns[j].event.Tag = "2.0" /\ txns[j].state = "rejected"
           /\ txns[j].event.Digest = txns[i].event.Digest
           /\ txns[j].line \in auditCase.logMatch

\* C9: for a fixed edge set the verdict and the annotation of an event depend
\* on the event alone: a repeated delivery gets the same verdict and line, and
\* in every arrival order of a fat manifest's events the children are VERIFIED
\* with "(parent digest P)" and the parent is VERIFIED without annotation.
C9_VerdictIndependentOfDelivery ==
    /\ \A i, j \in 1 .. Len(txns) :
           (Terminal(i) /\ Terminal(j) /\ txns[i].event = txns[j].event) =>
               /\ txns[i].state = txns[j].state
               /\ txns[i].line = txns[j].line
    /\ \A i \in 1 .. Len(txns) :
           Terminal(i) =>
               /\ txns[i].line \in auditCase.logMatch
               /\ txns[i].event.Digest \in {ChildDigest1, ChildDigest2} =>
                      /\ txns[i].state = "verified"
                      /\ txns[i].line =
                             "TRANSACTION VERIFIED: " \o EventText(txns[i].event) \o
                             ": agrees with manifest (parent digest " \o
                             FatDigest \o ")"
               /\ txns[i].event.Digest = FatDigest =>
                      /\ txns[i].state = "verified"
                      /\ txns[i].line =
                             "TRANSACTION VERIFIED: " \o EventText(txns[i].event) \o
                             ": agrees with manifest"

\* The events of the fat manifest have arrived parent first, then the second
\* child, then the first child twice, and all four are verified.
C9_Witness ==
    /\ auditCase.name = "fatManifest"
    /\ Len(txns) = 4
    /\ txns[1].event.Digest = FatDigest
    /\ txns[2].event.Digest = ChildDigest2
    /\ txns[3].event.Digest = ChildDigest1
    /\ txns[4].event = txns[3].event
    /\ \A i \in 1 .. 4 : txns[i].state = "verified"
    /\ txns[4].line = txns[3].line

=============================================================================
